---------------------------- MODULE Spec2Model ----------------------------
(***************************************************************************)
(* A model of src/math/frustum.rs: the off-axis perspective projection     *)
(* (collision::Perspective), the Frustum built from a pose and a           *)
(* projection or from a raw matrix, point containment, and the polyhedron  *)
(* data (corners, edges, face normals) handed to the SAT intersector.      *)
(*                                                                         *)
(* The scalar type S: RealField is modelled by exact extended rationals:   *)
(* a scalar is a pair <<n, d>>, in lowest terms with d > 0 for a real      *)
(* number, and d = 0 for the three non-finite values of floating point:    *)
(* <<1,0>> is +inf, <<-1,0>> is -inf and <<0,0>> is NaN.  Rounding is not   *)
(* modelled; division by zero, inf and NaN follow IEEE 754.                *)
(***************************************************************************)
EXTENDS Integers, Sequences, FiniteSets, TLC

(***************************************************************************)
(* Bounds of the model.                                                    *)
(***************************************************************************)
\* left and right range over -MaxPlane .. MaxPlane
MaxPlane == 1
\* query points on the integer grid have coordinates in -MaxPoint .. MaxPoint
MaxPoint == 1

(***************************************************************************)
(* Scalars.                                                                *)
(***************************************************************************)
Abs(i) == IF i < 0 THEN -i ELSE i

Sign(i) == IF i < 0 THEN -1 ELSE IF i > 0 THEN 1 ELSE 0

RECURSIVE Gcd(_, _)
Gcd(a, b) == IF b = 0 THEN a ELSE Gcd(b, a % b)

\* the real number n/d (d # 0), in lowest terms with a positive denominator
Q(n, d) ==
    LET g == Gcd(Abs(n), Abs(d))
    IN  <<(Sign(d) * n) \div g, Abs(d) \div g>>

\* nalgebra::convert of an integer literal
R(i) == <<i, 1>>

Zero == <<0, 1>>

One == <<1, 1>>

PInf == <<1, 0>>

NInf == <<-1, 0>>

NaN == <<0, 0>>

IsFinite(x) == x[2] # 0

IsNaN(x) == x = NaN

\* f64::is_zero
IsZero(x) == x = Zero

Neg(x) == <<-x[1], x[2]>>

Add(x, y) ==
    IF IsFinite(x) /\ IsFinite(y) THEN Q(x[1] * y[2] + y[1] * x[2], x[2] * y[2])
    ELSE IF IsNaN(x) \/ IsNaN(y) THEN NaN
    ELSE IF IsFinite(x) THEN y
    ELSE IF IsFinite(y) THEN x
    ELSE IF x = y THEN x
    ELSE NaN

Sub(x, y) == Add(x, Neg(y))

Mul(x, y) ==
    IF IsFinite(x) /\ IsFinite(y) THEN Q(x[1] * y[1], x[2] * y[2])
    ELSE IF Sign(x[1]) * Sign(y[1]) = 0 THEN NaN
    ELSE <<Sign(x[1]) * Sign(y[1]), 0>>

\* f64::recip: 1/0 is +inf, 1/inf is 0
Recip(x) ==
    IF IsNaN(x) THEN NaN
    ELSE IF ~IsFinite(x) THEN Zero
    ELSE IF x[1] = 0 THEN PInf
    ELSE Q(x[2], x[1])

\* x / y: a nonzero real over zero is an infinity, 0/0 and inf/inf are NaN
Div(x, y) == Mul(x, Recip(y))

\* x < y; false when either side is NaN
Lt(x, y) ==
    /\ ~IsNaN(x)
    /\ ~IsNaN(y)
    /\ IF IsFinite(x) /\ IsFinite(y) THEN x[1] * y[2] < y[1] * x[2]
       ELSE IF IsFinite(x) THEN y = PInf
       ELSE IF IsFinite(y) THEN x = NInf
       ELSE x = NInf /\ y = PInf

Gt(x, y) == Lt(y, x)

\* x <= y; false when either side is NaN
Le(x, y) == ~IsNaN(x) /\ ~IsNaN(y) /\ ~Lt(y, x)

(***************************************************************************)
(* 4x4 matrices as four rows of four scalars; At(m, r, c) is the entry at   *)
(* row r and column c, both counted from 0 as nalgebra counts them.        *)
(* 3-vectors and points are triples <<x, y, z>>.                           *)
(***************************************************************************)
Idx == 0 .. 3

\* nalgebra Matrix4::new: the sixteen components are given row by row
Matrix4New(m11, m12, m13, m14, m21, m22, m23, m24, m31, m32, m33, m34, m41, m42, m43, m44) ==
    <<<<m11, m12, m13, m14>>,
      <<m21, m22, m23, m24>>,
      <<m31, m32, m33, m34>>,
      <<m41, m42, m43, m44>>>>

\* entry (r, c) of a matrix, r and c counted from 0: nalgebra's m[(r, c)]
At(m, r, c) == m[r + 1][c + 1]

Identity4 ==
    Matrix4New(One, Zero, Zero, Zero,
               Zero, One, Zero, Zero,
               Zero, Zero, One, Zero,
               Zero, Zero, Zero, One)

\* the matrix product a * b
MatMul(a, b) ==
    LET e(r, c) == Add(Add(Mul(At(a, r, 0), At(b, 0, c)), Mul(At(a, r, 1), At(b, 1, c))),
                       Add(Mul(At(a, r, 2), At(b, 2, c)), Mul(At(a, r, 3), At(b, 3, c))))
    IN  Matrix4New(e(0, 0), e(0, 1), e(0, 2), e(0, 3),
                   e(1, 0), e(1, 1), e(1, 2), e(1, 3),
                   e(2, 0), e(2, 1), e(2, 2), e(2, 3),
                   e(3, 0), e(3, 1), e(3, 2), e(3, 3))

MatFinite(m) == \A r \in Idx : \A c \in Idx : IsFinite(At(m, r, c))

(***************************************************************************)
(* collision::Perspective                                                  *)
(***************************************************************************)
\* a faulty variant of the assert!s: strict comparisons, so equal planes panic
AssertsPassStrict(left, right, bottom, top, near, far) ==
    /\ Lt(left, right)
    /\ Lt(bottom, top)
    /\ Lt(near, far)

\* the three assert!s of Perspective::new: TRUE when none of them fires
AssertsPass(left, right, bottom, top, near, far) ==
    /\ Le(left, right)
    /\ Le(bottom, top)
    /\ Le(near, far)

\* the matrix Perspective::new stores, with the source's names for the entries
PerspectiveMatrix(left, right, bottom, top, near, far) ==
    LET two  == R(2)
        c0r0 == Div(Mul(two, near), Sub(right, left))
        c0r1 == Zero
        c0r2 == Zero
        c0r3 == Zero
        c1r0 == Zero
        c1r1 == Div(Mul(two, near), Sub(top, bottom))
        c1r2 == Zero
        c1r3 == Zero
        c2r0 == Div(Add(right, left), Sub(right, left))
        c2r1 == Div(Add(top, bottom), Sub(top, bottom))
        c2r2 == Div(Neg(Add(far, near)), Sub(far, near))
        c2r3 == Neg(One)
        c3r0 == Zero
        c3r1 == Zero
        c3r2 == Div(Neg(Mul(Mul(two, far), near)), Sub(far, near))
        c3r3 == Zero
    IN  Matrix4New(c0r0, c0r1, c0r2, c0r3,
                   c1r0, c1r1, c1r2, c1r3,
                   c2r0, c2r1, c2r2, c2r3,
                   c3r0, c3r1, c3r2, c3r3)

\* Perspective::new: a panic when an assert! fires, else the projection
PerspectiveNew(left, right, bottom, top, near, far) ==
    IF AssertsPass(left, right, bottom, top, near, far)
    THEN [status |-> "ok",
          args   |-> <<left, right, bottom, top, near, far>>,
          matrix |-> PerspectiveMatrix(left, right, bottom, top, near, far)]
    ELSE [status |-> "panic",
          args   |-> <<left, right, bottom, top, near, far>>,
          matrix |-> <<>>]

\* Perspective::new_fov.  tanAngle stands for (0.5 * fovy).tan(), which is
\* irrational for almost every fovy: the model is parameterised by its value.
PerspectiveNewFov(tanAngle, aspect, near, far) ==
    LET ymax == Mul(near, tanAngle)
        xmax == Mul(ymax, aspect)
    IN  PerspectiveNew(Neg(xmax), xmax, Neg(ymax), ymax, near, far)

\* Perspective::as_matrix
AsMatrix(p) == p.matrix

\* Perspective::inverse, with the source's names for the entries
PerspectiveInverse(p) ==
    LET c0r0 == Recip(At(p.matrix, 0, 0))
        c0r1 == Zero
        c0r2 == Zero
        c0r3 == Zero
        c1r0 == Zero
        c1r1 == Recip(At(p.matrix, 1, 1))
        c1r2 == Zero
        c1r3 == Zero
        c2r0 == Zero
        c2r1 == Zero
        c2r2 == Zero
        c2r3 == Recip(At(p.matrix, 3, 2))
        c3r0 == Div(At(p.matrix, 2, 0), At(p.matrix, 0, 0))
        c3r1 == Div(At(p.matrix, 2, 1), At(p.matrix, 1, 1))
        c3r2 == Neg(One)
        c3r3 == Div(At(p.matrix, 2, 2), At(p.matrix, 3, 2))
    IN  Matrix4New(c0r0, c0r1, c0r2, c0r3,
                   c1r0, c1r1, c1r2, c1r3,
                   c2r0, c2r1, c2r2, c2r3,
                   c3r0, c3r1, c3r2, c3r3)

(***************************************************************************)
(* Isometry3: a rotation matrix (3x3, rows as triples) and a translation.  *)
(***************************************************************************)
Dot3(u, v) == Add(Add(Mul(u[1], v[1]), Mul(u[2], v[2])), Mul(u[3], v[3]))

Add3(u, v) == <<Add(u[1], v[1]), Add(u[2], v[2]), Add(u[3], v[3])>>

Sub3(u, v) == <<Sub(u[1], v[1]), Sub(u[2], v[2]), Sub(u[3], v[3])>>

Neg3(u) == <<Neg(u[1]), Neg(u[2]), Neg(u[3])>>

Vec3Finite(u) == IsFinite(u[1]) /\ IsFinite(u[2]) /\ IsFinite(u[3])

\* rotation * vector
Rotate(rot, v) == <<Dot3(rot[1], v), Dot3(rot[2], v), Dot3(rot[3], v)>>

Transpose3(rot) ==
    <<<<rot[1][1], rot[2][1], rot[3][1]>>,
      <<rot[1][2], rot[2][2], rot[3][2]>>,
      <<rot[1][3], rot[2][3], rot[3][3]>>>>

\* Isometry3::inverse: the rotation transposed, the translation rotated back
IsometryInverse(iso) ==
    [rotation    |-> Transpose3(iso.rotation),
     translation |-> Neg3(Rotate(Transpose3(iso.rotation), iso.translation))]

\* Isometry3::to_homogeneous
ToHomogeneous(iso) ==
    Matrix4New(iso.rotation[1][1], iso.rotation[1][2], iso.rotation[1][3], iso.translation[1],
               iso.rotation[2][1], iso.rotation[2][2], iso.rotation[2][3], iso.translation[2],
               iso.rotation[3][1], iso.rotation[3][2], iso.rotation[3][3], iso.translation[3],
               Zero, Zero, Zero, One)

\* Isometry3 * Point3
IsometryTransformPoint(iso, p) == Add3(Rotate(iso.rotation, p), iso.translation)

(***************************************************************************)
(* Matrix4::transform_point: the projective image of a point, divided by   *)
(* the homogeneous coordinate unless that one is zero.                     *)
(***************************************************************************)
TransformPoint(m, pt) ==
    LET lin(r) == Add(Add(Mul(At(m, r, 0), pt[1]), Mul(At(m, r, 1), pt[2])),
                      Add(Mul(At(m, r, 2), pt[3]), At(m, r, 3)))
        n      == Add(Add(Add(Mul(At(m, 3, 0), pt[1]), Mul(At(m, 3, 1), pt[2])),
                          Mul(At(m, 3, 2), pt[3])), At(m, 3, 3))
    IN  IF ~IsZero(n)
        THEN <<Div(lin(0), n), Div(lin(1), n), Div(lin(2), n)>>
        ELSE <<lin(0), lin(1), lin(2)>>

(***************************************************************************)
(* Matrix4::try_inverse: the adjugate over the determinant, None when the  *)
(* determinant is zero.                                                    *)
(***************************************************************************)
\* the three indices left when index i is struck out
Skip(i) == CASE i = 0 -> <<1, 2, 3>> [] i = 1 -> <<0, 2, 3>> [] i = 2 -> <<0, 1, 3>> [] i = 3 -> <<0, 1, 2>>

\* the determinant of m with row r and column c struck out
Minor(m, r, c) ==
    LET i  == Skip(r)
        j  == Skip(c)
        e(a, b) == At(m, i[a], j[b])
    IN  Add(Sub(Mul(e(1, 1), Sub(Mul(e(2, 2), e(3, 3)), Mul(e(2, 3), e(3, 2)))),
                Mul(e(1, 2), Sub(Mul(e(2, 1), e(3, 3)), Mul(e(2, 3), e(3, 1))))),
            Mul(e(1, 3), Sub(Mul(e(2, 1), e(3, 2)), Mul(e(2, 2), e(3, 1)))))

\* entry (r, c) of the adjugate: the signed minor of the transposed position
Adjugate(m) ==
    LET e(r, c) == IF (r + c) % 2 = 0 THEN Minor(m, c, r) ELSE Neg(Minor(m, c, r))
    IN  Matrix4New(e(0, 0), e(0, 1), e(0, 2), e(0, 3),
                   e(1, 0), e(1, 1), e(1, 2), e(1, 3),
                   e(2, 0), e(2, 1), e(2, 2), e(2, 3),
                   e(3, 0), e(3, 1), e(3, 2), e(3, 3))

NoMatrix == <<>>

\* the determinant, from the first column of m and the first row of the adjugate
Determinant(m, out) ==
    Add(Add(Mul(At(m, 0, 0), At(out, 0, 0)), Mul(At(m, 1, 0), At(out, 0, 1))),
        Add(Mul(At(m, 2, 0), At(out, 0, 2)), Mul(At(m, 3, 0), At(out, 0, 3))))

\* every entry of out times inv_det
Scaled(out, inv_det) ==
    LET e(r, c) == Mul(At(out, r, c), inv_det)
    IN  Matrix4New(e(0, 0), e(0, 1), e(0, 2), e(0, 3),
                   e(1, 0), e(1, 1), e(1, 2), e(1, 3),
                   e(2, 0), e(2, 1), e(2, 2), e(2, 3),
                   e(3, 0), e(3, 1), e(3, 2), e(3, 3))

InverseFromAdjugate(out, det) ==
    IF ~IsZero(det) THEN Scaled(out, Recip(det)) ELSE NoMatrix

TryInverse(m) ==
    CHOOSE inv \in {InverseFromAdjugate(out, Determinant(m, out)) : out \in {Adjugate(m)}} : TRUE

(***************************************************************************)
(* Frustum                                                                 *)
(***************************************************************************)
NoFrustum == [status |-> "none", query_from_clip |-> NoMatrix, clip_from_query |-> NoMatrix]

\* a faulty variant of Frustum::new: the pose and the inverse projection are
\* multiplied in the wrong order
FrustumNewSwapped(query_from_eye, clip_from_eye) ==
    LET clip_from_query == MatMul(AsMatrix(clip_from_eye),
                                  ToHomogeneous(IsometryInverse(query_from_eye)))
        query_from_clip == MatMul(PerspectiveInverse(clip_from_eye),
                                  ToHomogeneous(query_from_eye))
    IN  [status          |-> "some",
         query_from_clip |-> query_from_clip,
         clip_from_query |-> clip_from_query]

\* Frustum::new
FrustumNew(query_from_eye, clip_from_eye) ==
    LET clip_from_query == MatMul(AsMatrix(clip_from_eye),
                                  ToHomogeneous(IsometryInverse(query_from_eye)))
        query_from_clip == MatMul(ToHomogeneous(query_from_eye),
                                  PerspectiveInverse(clip_from_eye))
    IN  [status          |-> "some",
         query_from_clip |-> query_from_clip,
         clip_from_query |-> clip_from_query]

\* a faulty variant of from_matrix4: a singular matrix yields a Frustum that
\* holds the identity in place of the inverse
FrustumFromMatrix4Fallback(clip_from_query) ==
    LET query_from_clip == TryInverse(clip_from_query)
    IN  [status          |-> "some",
         query_from_clip |-> IF query_from_clip = NoMatrix THEN Identity4 ELSE query_from_clip,
         clip_from_query |-> clip_from_query]

\* Frustum::from_matrix4: None ("rejected") when try_inverse fails
FrustumFromMatrix4(clip_from_query) ==
    LET query_from_clip == TryInverse(clip_from_query)
    IN  IF query_from_clip = NoMatrix
        THEN [status |-> "rejected", query_from_clip |-> NoMatrix, clip_from_query |-> NoMatrix]
        ELSE [status          |-> "some",
              query_from_clip |-> query_from_clip,
              clip_from_query |-> clip_from_query]

Min2(a, b) == IF Lt(b, a) THEN b ELSE a

Max2(a, b) == IF Lt(a, b) THEN b ELSE a

\* coords.min() and coords.max() of a point
CoordsMin(v) == Min2(Min2(v[1], v[2]), v[3])

CoordsMax(v) == Max2(Max2(v[1], v[2]), v[3])

\* a faulty variant of contains_point: the closed cube, boundary included
ContainsPointClosed(matrix, point) ==
    LET p_clip == TransformPoint(matrix, point)
    IN  Le(R(-1), CoordsMin(p_clip)) /\ Le(CoordsMax(p_clip), R(1))

\* contains_point
ContainsPoint(matrix, point) ==
    LET p_clip == TransformPoint(matrix, point)
    IN  Gt(CoordsMin(p_clip), R(-1)) /\ Lt(CoordsMax(p_clip), R(1))

\* PointCulling::contains for Frustum
Contains(f, point) == ContainsPoint(f.clip_from_query, point)

\* a faulty variant of compute_corners: the clip-cube vertices are taken
\* through clip_from_query instead of query_from_clip
ComputeCornersForward(f) ==
    LET corner_from(x, y, z) == TransformPoint(f.clip_from_query, <<x, y, z>>)
    IN  << corner_from(Neg(One), Neg(One), Neg(One)),
           corner_from(Neg(One), Neg(One), One),
           corner_from(Neg(One), One, Neg(One)),
           corner_from(Neg(One), One, One),
           corner_from(One, Neg(One), Neg(One)),
           corner_from(One, Neg(One), One),
           corner_from(One, One, Neg(One)),
           corner_from(One, One, One) >>

\* ConvexPolyhedron::compute_corners, in the source's order
ComputeCorners(f) ==
    LET corner_from(x, y, z) == TransformPoint(f.query_from_clip, <<x, y, z>>)
    IN  << corner_from(Neg(One), Neg(One), Neg(One)),
           corner_from(Neg(One), Neg(One), One),
           corner_from(Neg(One), One, Neg(One)),
           corner_from(Neg(One), One, One),
           corner_from(One, Neg(One), Neg(One)),
           corner_from(One, Neg(One), One),
           corner_from(One, One, Neg(One)),
           corner_from(One, One, One) >>

\* element i of an array, counted from 0: the source's corners[i], edges[i]
Elem(array, i) == array[i + 1]

(***************************************************************************)
(* Unit vectors.  The norm of a rational vector is irrational in general,  *)
(* so a unit vector v / |v| is represented by the one primitive integer    *)
(* vector that points the same way (the integer multiple of v whose        *)
(* entries have no common factor): two unit vectors are equal exactly when *)
(* their representatives are.  Normalising the zero vector divides 0 by 0. *)
(***************************************************************************)
Lcm(a, b) == (a \div Gcd(a, b)) * b

UnitNewNormalize(v) ==
    IF IsNaN(v[1]) \/ IsNaN(v[2]) \/ IsNaN(v[3]) THEN <<NaN, NaN, NaN>>
    ELSE IF ~Vec3Finite(v)
        THEN <<IF IsFinite(v[1]) THEN Zero ELSE NaN,
               IF IsFinite(v[2]) THEN Zero ELSE NaN,
               IF IsFinite(v[3]) THEN Zero ELSE NaN>>
    ELSE IF v = <<Zero, Zero, Zero>> THEN <<NaN, NaN, NaN>>
    ELSE LET l  == Lcm(Lcm(v[1][2], v[2][2]), v[3][2])
             n1 == v[1][1] * (l \div v[1][2])
             n2 == v[2][1] * (l \div v[2][2])
             n3 == v[3][1] * (l \div v[3][2])
             g  == Gcd(Gcd(Abs(n1), Abs(n2)), Abs(n3))
         IN  <<R(n1 \div g), R(n2 \div g), R(n3 \div g)>>

\* Vector3::cross
Cross(u, v) ==
    <<Sub(Mul(u[2], v[3]), Mul(u[3], v[2])),
      Sub(Mul(u[3], v[1]), Mul(u[1], v[3])),
      Sub(Mul(u[1], v[2]), Mul(u[2], v[1]))>>

\* the edges of intersector()
Edges(corners) ==
    << UnitNewNormalize(Sub3(Elem(corners, 4), Elem(corners, 0))),  \* x
       UnitNewNormalize(Sub3(Elem(corners, 2), Elem(corners, 0))),  \* y
       UnitNewNormalize(Sub3(Elem(corners, 1), Elem(corners, 0))),  \* z lower left
       UnitNewNormalize(Sub3(Elem(corners, 3), Elem(corners, 2))),  \* z upper left
       UnitNewNormalize(Sub3(Elem(corners, 5), Elem(corners, 4))),  \* z lower right
       UnitNewNormalize(Sub3(Elem(corners, 7), Elem(corners, 6))) >>  \* z upper right

\* the face normals of intersector()
FaceNormals(edges) ==
    << UnitNewNormalize(Cross(Elem(edges, 0), Elem(edges, 1))),  \* Front and back sides
       UnitNewNormalize(Cross(Elem(edges, 0), Elem(edges, 2))),  \* Lower side
       UnitNewNormalize(Cross(Elem(edges, 0), Elem(edges, 3))),  \* Upper side
       UnitNewNormalize(Cross(Elem(edges, 1), Elem(edges, 2))),  \* Left side
       UnitNewNormalize(Cross(Elem(edges, 1), Elem(edges, 2))) >>  \* right side

\* ConvexPolyhedron::intersector.  The corners and the edges are computed
\* once each (the set binders evaluate them once), as in the source.
Intersector(f) ==
    CHOOSE i \in UNION {{[corners      |-> corners,
                          edges        |-> edges,
                          face_normals |-> FaceNormals(edges)] :
                            edges \in {Edges(corners)}} :
                                corners \in {ComputeCorners(f)}} : TRUE

\* compute_edges and compute_face_normals return the intersector's fields
ComputeEdges(f) == Intersector(f).edges

ComputeFaceNormals(f) == Intersector(f).face_normals

(***************************************************************************)
(* Inputs.                                                                 *)
(***************************************************************************)
\* left and right
PlaneVals == {R(i) : i \in -MaxPlane .. MaxPlane}

\* (bottom, top): symmetric, off-axis, equal and out of order
VerticalPairs == {<<R(-1), R(1)>>, <<Zero, R(1)>>, <<R(-2), R(1)>>, <<R(1), R(1)>>, <<R(1), R(-1)>>}

\* (near, far): the usual 0 < near < far, a zero plane, equal and out of order
DepthPairs == {<<Q(1, 10), R(10)>>, <<R(1), R(2)>>, <<Q(2, 3), R(2)>>, <<Zero, R(1)>>, <<R(-1), Zero>>, <<R(-1), R(1)>>, <<R(1), R(1)>>, <<R(2), R(1)>>}

\* values of (0.5 * fovy).tan(); 13/19 is tan(0.6) to three places (fovy = 1.2)
TanVals == {Q(1, 2), Q(13, 19), One}

AspectVals == {One, R(2)}

IdentityRotation == <<<<One, Zero, Zero>>, <<Zero, One, Zero>>, <<Zero, Zero, One>>>>

\* half a turn about x: OpenCV camera coordinates to eye coordinates
RotX180 == <<<<One, Zero, Zero>>, <<Zero, R(-1), Zero>>, <<Zero, Zero, R(-1)>>>>

\* a quarter turn about z
RotZ90 == <<<<Zero, R(-1), Zero>>, <<One, Zero, Zero>>, <<Zero, Zero, One>>>>

IdentityPose == [rotation |-> IdentityRotation, translation |-> <<Zero, Zero, Zero>>]

Poses ==
    { IdentityPose,
      [rotation |-> IdentityRotation, translation |-> <<R(1), R(-2), R(3)>>],
      [rotation |-> RotX180, translation |-> <<R(1), R(-2), R(3)>>],
      [rotation |-> RotZ90, translation |-> <<Zero, Zero, Zero>>] }

ZeroMatrix ==
    Matrix4New(Zero, Zero, Zero, Zero,
               Zero, Zero, Zero, Zero,
               Zero, Zero, Zero, Zero,
               Zero, Zero, Zero, Zero)

\* a uniform scaling by s followed by a translation by t along x
ScaleTranslate(s, t) ==
    Matrix4New(R(s), Zero, Zero, R(t),
               Zero, R(s), Zero, Zero,
               Zero, Zero, R(s), Zero,
               Zero, Zero, Zero, One)

\* raw clip_from_query matrices handed to from_matrix4
RawMatrices ==
    {ScaleTranslate(s, t) : s \in -MaxPlane .. MaxPlane, t \in -MaxPlane .. MaxPlane}
    \cup
    { ZeroMatrix,
      \* a perspective matrix (near 1, far 3, right 1, top 1)
      Matrix4New(One, Zero, Zero, Zero,
                 Zero, One, Zero, Zero,
                 Zero, Zero, R(-2), R(-3),
                 Zero, Zero, R(-1), Zero),
      \* two equal rows
      Matrix4New(One, R(2), Zero, Zero,
                 One, R(2), Zero, Zero,
                 Zero, Zero, One, Zero,
                 Zero, Zero, Zero, One),
      \* a dense invertible matrix
      Matrix4New(R(2), One, Zero, Zero,
                 One, One, Zero, R(1),
                 Zero, One, One, Zero,
                 One, Zero, Zero, R(2)),
      \* rank 3 with no zero row
      Matrix4New(One, One, Zero, Zero,
                 Zero, One, One, Zero,
                 Zero, Zero, One, One,
                 One, R(2), R(2), One) }

\* query points on the integer grid of the plane y = 0
GridPoints == {<<R(x), Zero, R(z)>> : x \in -MaxPoint .. MaxPoint, z \in -MaxPoint .. MaxPoint}

\* points of clip space: inside the cube, on its faces, at a vertex, outside
ClipSamples ==
    { <<Zero, Zero, Zero>>, <<One, Zero, Zero>>, <<Zero, R(-1), Zero>>,
      <<Zero, Zero, One>>, <<Zero, Zero, R(-1)>>, <<Q(1, 2), Q(-1, 2), Q(1, 2)>>,
      <<One, One, One>>, <<Q(3, 2), Zero, Zero>> }

\* the point of eye space on the optical axis midway between near and far
OpticalCenter(near, far) == <<Zero, Zero, Neg(Div(Add(near, far), R(2)))>>

(***************************************************************************)
(* State.                                                                  *)
(***************************************************************************)
VARIABLES
    perspective,  \* the collision::Perspective built, if any
    frustum,      \* the Frustum built, if any
    built,        \* how the frustum was built, and from what
    last          \* the last query and what it returned

vars == <<perspective, frustum, built, last>>

NoPerspective == [status |-> "none", args |-> <<>>, matrix |-> NoMatrix]

NotBuilt == [by |-> "none"]

NoQuery == [op |-> "none"]

Init ==
    /\ perspective = NoPerspective
    /\ frustum = NoFrustum
    /\ built = NotBuilt
    /\ last = NoQuery

\* Both types are immutable values: each variable is set once, by a
\* constructor, and a panic ends the run.
CallPerspectiveNew ==
    /\ perspective.status = "none"
    /\ frustum.status = "none"
    /\ \E left \in PlaneVals, right \in PlaneVals, v \in VerticalPairs, d \in DepthPairs :
          perspective' = PerspectiveNew(left, right, v[1], v[2], d[1], d[2])
    /\ UNCHANGED <<frustum, built, last>>

CallPerspectiveNewFov ==
    /\ perspective.status = "none"
    /\ frustum.status = "none"
    /\ \E tanAngle \in TanVals, aspect \in AspectVals, d \in DepthPairs :
          perspective' = PerspectiveNewFov(tanAngle, aspect, d[1], d[2])
    /\ UNCHANGED <<frustum, built, last>>

CallInverse ==
    /\ perspective.status = "ok"
    /\ last' = [op |-> "inverse", value |-> PerspectiveInverse(perspective)]
    /\ UNCHANGED <<perspective, frustum, built>>

CallFrustumNew ==
    /\ perspective.status = "ok"
    /\ frustum.status = "none"
    /\ \E query_from_eye \in Poses :
          /\ frustum' = FrustumNew(query_from_eye, perspective)
          /\ built' = [by |-> "new", pose |-> query_from_eye]
    /\ UNCHANGED <<perspective, last>>

CallFromMatrix4 ==
    /\ perspective.status = "none"
    /\ frustum.status = "none"
    /\ \E clip_from_query \in RawMatrices :
          /\ frustum' = FrustumFromMatrix4(clip_from_query)
          /\ built' = [by |-> "from_matrix4", raw |-> clip_from_query]
    /\ UNCHANGED <<perspective, last>>

\* A frustum holding an infinity or a NaN hands NaN to every query; how the
\* library's min and max order a NaN is not part of this file, so queries are
\* modelled on frustums whose entries are all real numbers.
Queryable ==
    /\ frustum.status = "some"
    /\ MatFinite(frustum.query_from_clip)
    /\ MatFinite(frustum.clip_from_query)

QueryPoints ==
    GridPoints
    \cup {TransformPoint(frustum.query_from_clip, c) : c \in ClipSamples}
    \cup (IF built.by = "new"
          THEN {IsometryTransformPoint(built.pose,
                    OpticalCenter(perspective.args[5], perspective.args[6]))}
          ELSE {})

CallContains ==
    /\ Queryable
    /\ \E point \in QueryPoints :
          last' = [op |-> "contains", point |-> point, result |-> Contains(frustum, point)]
    /\ UNCHANGED <<perspective, frustum, built>>

CallComputeCorners ==
    /\ Queryable
    /\ last' = [op |-> "corners", corners |-> ComputeCorners(frustum)]
    /\ UNCHANGED <<perspective, frustum, built>>

CallIntersector ==
    /\ Queryable
    /\ last' = [op |-> "intersector", value |-> Intersector(frustum)]
    /\ UNCHANGED <<perspective, frustum, built>>

Next ==
    \/ CallPerspectiveNew
    \/ CallPerspectiveNewFov
    \/ CallInverse
    \/ CallFrustumNew
    \/ CallFromMatrix4
    \/ CallContains
    \/ CallComputeCorners
    \/ CallIntersector

Spec == Init /\ [][Next]_vars

(***************************************************************************)
(* Definitions used to state the properties.                               *)
(***************************************************************************)
Left == perspective.args[1]

Right == perspective.args[2]

Bottom == perspective.args[3]

Top == perspective.args[4]

Near == perspective.args[5]

Far == perspective.args[6]

\* m * (x, y, z, 1), the four homogeneous coordinates before any division
HomogeneousImage(m, p) ==
    LET row(r) == Add(Add(Mul(At(m, r, 0), p[1]), Mul(At(m, r, 1), p[2])),
                      Add(Mul(At(m, r, 2), p[3]), At(m, r, 3)))
    IN  <<row(0), row(1), row(2), row(3)>>

StrictlyInside(x) == Lt(R(-1), x) /\ Lt(x, R(1))

\* the determinant by expansion along the first row, for a square matrix
\* given as a sequence of rows
RECURSIVE DetRows(_)
RECURSIVE DetTerms(_, _)
Without(row, j) == [k \in 1 .. Len(row) - 1 |-> IF k < j THEN row[k] ELSE row[k + 1]]

DetTerms(m, j) ==
    IF j = 0 THEN Zero
    ELSE LET sub  == [i \in 1 .. Len(m) - 1 |-> Without(m[i + 1], j)]
             term == Mul(m[1][j], DetRows(sub))
         IN  Add(DetTerms(m, j - 1), IF j % 2 = 1 THEN term ELSE Neg(term))

DetRows(m) == IF Len(m) = 1 THEN m[1][1] ELSE DetTerms(m, Len(m))

\* the width of a set of corners along coordinate k: max minus min
Span(corners, indices, k) ==
    LET hi == CHOOSE a \in indices : \A b \in indices : ~Lt(Elem(corners, a)[k], Elem(corners, b)[k])
        lo == CHOOSE a \in indices : \A b \in indices : ~Lt(Elem(corners, b)[k], Elem(corners, a)[k])
    IN  Sub(Elem(corners, hi)[k], Elem(corners, lo)[k])

\* the corners that are images of the clip-cube vertices with z = -1, z = +1
NearCorners == {0, 2, 4, 6}

FarCorners == {1, 3, 5, 7}

\* a symmetric frustum with 0 < near < far, as new_fov builds it
SymmetricProjection ==
    /\ perspective.status = "ok"
    /\ Left = Neg(Right)
    /\ Lt(Left, Right)
    /\ Bottom = Neg(Top)
    /\ Lt(Bottom, Top)
    /\ Lt(Zero, Near)
    /\ Lt(Near, Far)

\* the standard off-axis perspective matrix, eye space to clip space
StandardPerspective(left, right, bottom, top, near, far) ==
    Matrix4New(Div(Mul(R(2), near), Sub(right, left)), Zero, Div(Add(right, left), Sub(right, left)), Zero,
               Zero, Div(Mul(R(2), near), Sub(top, bottom)), Div(Add(top, bottom), Sub(top, bottom)), Zero,
               Zero, Zero, Neg(Div(Add(far, near), Sub(far, near))), Neg(Div(Mul(Mul(R(2), far), near), Sub(far, near))),
               Zero, Zero, R(-1), Zero)

Perpendicular(u, v) == Dot3(u, v) = Zero

Parallel(u, v) == Cross(u, v) = <<Zero, Zero, Zero>>

\* a projection with left < right, bottom < top and 0 < near < far
ValidProjection ==
    /\ perspective.status = "ok"
    /\ Lt(Left, Right)
    /\ Lt(Bottom, Top)
    /\ Lt(Zero, Near)
    /\ Lt(Near, Far)

C2_ProductIsIdentity ==
    (/\ frustum.status = "some"
     /\ MatFinite(frustum.clip_from_query)
     /\ MatFinite(frustum.query_from_clip))
        => MatMul(frustum.clip_from_query, frustum.query_from_clip) = Identity4

\* a frustum built by Frustum::new from an off-axis projection and a pose
\* that rotates and translates
C2_OffAxisPosedFrustum ==
    /\ frustum.status = "some"
    /\ built.by = "new"
    /\ built.pose.rotation # IdentityRotation
    /\ built.pose.translation # <<Zero, Zero, Zero>>
    /\ Left # Neg(Right)
    /\ MatFinite(frustum.clip_from_query)
    /\ MatFinite(frustum.query_from_clip)

(***************************************************************************)
(* C3. For left < right, bottom < top and near < far, the matrix returned  *)
(* by inverse() times the matrix returned by as_matrix() is the identity.  *)
(***************************************************************************)
C3_InverseTimesMatrixIsIdentity ==
    (/\ last.op = "inverse"
     /\ Lt(Left, Right)
     /\ Lt(Bottom, Top)
     /\ Lt(Near, Far))
        => MatMul(last.value, AsMatrix(perspective)) = Identity4

(***************************************************************************)
(* C4. Perspective::new panics, and builds no projection, exactly when     *)
(* left > right or bottom > top or near > far; the panic ends the run.     *)
(***************************************************************************)
C4_PanicIffOutOfOrder ==
    perspective.status # "none" =>
        /\ perspective.status = "panic"
              <=> (Lt(Right, Left) \/ Lt(Top, Bottom) \/ Lt(Far, Near))
        /\ perspective.status = "panic"
              => (perspective.matrix = NoMatrix /\ frustum = NoFrustum /\ last = NoQuery)

\* new(left = 1, right = 0, bottom = -1, top = 1, near = 0.1, far = 10) panicked
C4_ExamplePanicked ==
    /\ perspective.status = "panic"
    /\ perspective.args = <<R(1), Zero, R(-1), R(1), Q(1, 10), R(10)>>

(***************************************************************************)
(* C5. from_matrix4(m) returns None when m is not invertible (the zero     *)
(* matrix among them), never a Frustum holding a stand-in matrix; when m   *)
(* is invertible it returns a Frustum whose clip_from_query is m (and      *)
(* whose query_from_clip is the inverse of m).                             *)
(***************************************************************************)
C5_NoneIffSingular ==
    built.by = "from_matrix4" =>
        IF DetRows(built.raw) = Zero
        THEN /\ frustum.status = "rejected"
             /\ frustum.clip_from_query = NoMatrix
             /\ frustum.query_from_clip = NoMatrix
        ELSE /\ frustum.status = "some"
             /\ frustum.clip_from_query = built.raw
             /\ MatMul(frustum.query_from_clip, built.raw) = Identity4

\* from_matrix4 was handed the zero matrix and returned None
C5_ZeroMatrixRejected ==
    /\ built.by = "from_matrix4"
    /\ built.raw = ZeroMatrix
    /\ frustum.status = "rejected"

(***************************************************************************)
(* C6. For a Frustum built by Frustum::new from a pose and a symmetric     *)
(* projection with 0 < near < far, the point on the optical axis at eye    *)
(* coordinates (0, 0, -(near + far) / 2), taken into query space by the    *)
(* pose, is contained.                                                     *)
(***************************************************************************)
C6_OpticalCenterContained ==
    (/\ last.op = "contains"
     /\ built.by = "new"
     /\ SymmetricProjection
     /\ last.point = IsometryTransformPoint(built.pose, OpticalCenter(Near, Far)))
        => last.result = TRUE

(***************************************************************************)
(* C7. For left < right, bottom < top and near < far the matrix of         *)
(* Perspective::new is the standard off-axis perspective matrix.           *)
(***************************************************************************)
C7_MatrixIsStandard ==
    (/\ perspective.status = "ok"
     /\ Lt(Left, Right)
     /\ Lt(Bottom, Top)
     /\ Lt(Near, Far))
        => AsMatrix(perspective) = StandardPerspective(Left, Right, Bottom, Top, Near, Far)

(***************************************************************************)
(* C8. For a symmetric frustum and the identity pose, the four corners     *)
(* that are images of the clip-cube vertices with z = -1 span strictly     *)
(* less in x and in y than the four that are images of those with z = +1.  *)
(***************************************************************************)
C8_NearFaceSmaller ==
    (/\ last.op = "corners"
     /\ built.by = "new"
     /\ built.pose = IdentityPose
     /\ SymmetricProjection)
        => /\ Lt(Span(last.corners, NearCorners, 1), Span(last.corners, FarCorners, 1))
           /\ Lt(Span(last.corners, NearCorners, 2), Span(last.corners, FarCorners, 2))

\* compute_corners ran on the frustum of new_fov with tan(fovy / 2) = 13/19,
\* aspect 1, near 0.1 and far 10, under the identity pose
C8_FovCornersComputed ==
    /\ last.op = "corners"
    /\ built.by = "new"
    /\ built.pose = IdentityPose
    /\ perspective = PerspectiveNewFov(Q(13, 19), One, Q(1, 10), R(10))
    /\ SymmetricProjection

(***************************************************************************)
(* C9. For a Frustum built from a valid projection, each side normal       *)
(* intersector() returns is perpendicular to its own side face of the      *)
(* polyhedron of compute_corners(): the right-side normal is perpendicular *)
(* to corners[6] - corners[4] and corners[5] - corners[4], and the left    *)
(* and right normals differ when the left and right faces are not parallel.*)
(***************************************************************************)
C9_SideNormalsPerpendicular ==
    (/\ last.op = "intersector"
     /\ built.by = "new"
     /\ ValidProjection)
        => LET c == last.value.corners
               n == last.value.face_normals
               leftFace  == Cross(Sub3(Elem(c, 2), Elem(c, 0)), Sub3(Elem(c, 1), Elem(c, 0)))
               rightFace == Cross(Sub3(Elem(c, 6), Elem(c, 4)), Sub3(Elem(c, 5), Elem(c, 4)))
           IN  /\ Perpendicular(Elem(n, 4), Sub3(Elem(c, 6), Elem(c, 4)))
               /\ Perpendicular(Elem(n, 4), Sub3(Elem(c, 5), Elem(c, 4)))
               /\ Perpendicular(Elem(n, 3), Sub3(Elem(c, 2), Elem(c, 0)))
               /\ Perpendicular(Elem(n, 3), Sub3(Elem(c, 1), Elem(c, 0)))
               /\ Perpendicular(Elem(n, 1), Sub3(Elem(c, 4), Elem(c, 0)))
               /\ Perpendicular(Elem(n, 1), Sub3(Elem(c, 1), Elem(c, 0)))
               /\ Perpendicular(Elem(n, 2), Sub3(Elem(c, 6), Elem(c, 2)))
               /\ Perpendicular(Elem(n, 2), Sub3(Elem(c, 3), Elem(c, 2)))
               /\ ~Parallel(leftFace, rightFace) => Elem(n, 3) # Elem(n, 4)

(***************************************************************************)
(* C10. For every input Perspective::new accepts, neither new nor          *)
(* inverse() divides by zero or takes the reciprocal of zero, and both     *)
(* matrices hold well-defined entries.                                     *)
(***************************************************************************)
C10_NoDivisionByZero ==
    perspective.status = "ok" =>
        /\ ~IsZero(Sub(Right, Left))
        /\ ~IsZero(Sub(Top, Bottom))
        /\ ~IsZero(Sub(Far, Near))
        /\ MatFinite(AsMatrix(perspective))
        /\ last.op = "inverse" =>
              /\ ~IsZero(At(perspective.matrix, 0, 0))
              /\ ~IsZero(At(perspective.matrix, 1, 1))
              /\ ~IsZero(At(perspective.matrix, 3, 2))
              /\ MatFinite(last.value)

=============================================================================
